---- MODULE Spec2Model ----
(***************************************************************************)
(* OctoPrintCommunicator: the fleet cycle of __main__.py (import the       *)
(* printer list, connect, poll the status of every printer, read the       *)
(* command list, dispatch the print commands) and the OctoPrintClient      *)
(* methods of octoprintcommunication.py it calls.                          *)
(*                                                                         *)
(* Python values are records [type, repr], so that str() and truthiness    *)
(* are computed as Python computes them.  A string built with + and ";"    *)
(* is a sequence of text pieces; Split(line) is the split on ";".          *)
(* Positions are 1-based here and 0-based in the source.                   *)
(***************************************************************************)
EXTENDS Integers, Sequences, FiniteSets, TLC

\* ------------------------------------------------------------------ bounds
MaxDevices == 2     \* rows of ListOfPrinters.csv
MaxCommands == 2    \* rows of PrinterCommands.csv
MaxRuns == 2        \* invocations of the script by the external scheduler
RerunDevices == 1   \* rows of ListOfPrinters.csv where the script is run again

\* ----------------------------------------------------------- Python values
PyTrue == [type |-> "bool", repr |-> "True"]
PyFalse == [type |-> "bool", repr |-> "False"]
PyNone == [type |-> "NoneType", repr |-> "None"]
PyStr(s) == [type |-> "str", repr |-> s]
PyFloat(s) == [type |-> "float", repr |-> s]
PyInt(s) == [type |-> "int", repr |-> s]
\* opc.isPrinterConnected without parentheses: the method object itself
BoundMethod == [type |-> "method", repr |-> "<bound method OctoPrintClient.isPrinterConnected>"]

\* str(v)
str(v) == v.repr

\* truth value of v in an if statement
Truthy(v) ==
    CASE v.type = "bool" -> v.repr = "True"
      [] v.type = "NoneType" -> FALSE
      [] v.type = "str" -> v.repr # ""
      [] v.type = "float" -> v.repr # "0.0"
      [] v.type = "int" -> v.repr # "0"
      [] OTHER -> TRUE

\* what a call hands back: a value, or an exception that leaves the callee
Return(v) == [ret |-> v, exc |-> "none"]
Raise(e) == [ret |-> PyNone, exc |-> e]

\* ---------------------------------------------------------------- network
\* What the network does with one request: a response arrives, the connection
\* is refused, the connect times out, or the device accepts the connection and
\* does not answer within timeout=1.
Failures == {"ConnectionError", "ConnectTimeout", "ReadTimeout"}
Outcomes == {"response"} \cup Failures

\* "except ConnectionError": requests.exceptions.ConnectTimeout derives from
\* ConnectionError, requests.exceptions.ReadTimeout derives from Timeout only.
IsConnectionError(outcome) == outcome \in {"ConnectionError", "ConnectTimeout"}

\* OctoPrintClient.get: the response, None after a caught ConnectionError, or
\* the exception the except clause does not name.
get(reply) ==
    IF reply.outcome = "response" THEN [r |-> "Response", exc |-> "none"]
    ELSE IF IsConnectionError(reply.outcome) THEN [r |-> "None", exc |-> "none"]
    ELSE [r |-> "None", exc |-> reply.outcome]

\* OctoPrintClient.post
post(reply) ==
    IF reply.outcome = "response" THEN [r |-> "Response", exc |-> "none"]
    ELSE IF IsConnectionError(reply.outcome) THEN [r |-> "None", exc |-> "none"]
    ELSE [r |-> "None", exc |-> reply.outcome]

\* GET /api/connection: current.state of the JSON body; NoState is a body that
\* is JSON without current.state (an error document).
States == {"Operational", "Closed", "Printing"}
NoState == "<no current.state>"
ConnReplies ==
    [outcome : {"response"}, body : States \cup {NoState}]
        \cup [outcome : Failures, body : {""}]

\* GET /api/printer: the body is one of two status documents or the text
\* OctoPrint answers when the printer is not operational.
NotOperationalText == "Printer is not operational"
StatusText1 == "{printing:false,ready:true,bed:60.2,tool0:210.0}"
StatusText2 == "{printing:true,ready:false,bed:55.0,tool0:205.5}"
StatusTexts == {StatusText1, StatusText2}
StatusReplies ==
    [outcome : {"response"}, body : StatusTexts \cup {NotOperationalText}]
        \cup [outcome : Failures, body : {""}]

\* POST replies (connect, select, start, login, logout): the body is not read
PostReplies == [outcome : {"response"}, body : {"ok"}] \cup [outcome : Failures, body : {""}]

\* json.loads on a status document
IsJson(text) == text \in StatusTexts
JsonLoads(text) ==
    IF text = StatusText1 THEN
        [state |-> [flags |-> [printing |-> PyFalse, ready |-> PyTrue,
                               operational |-> PyTrue, pausing |-> PyFalse,
                               paused |-> PyFalse, finishing |-> PyFalse]],
         temperature |-> [bed |-> [actual |-> PyFloat("60.2")],
                          tool0 |-> [actual |-> PyFloat("210.0")]]]
    ELSE
        [state |-> [flags |-> [printing |-> PyTrue, ready |-> PyFalse,
                               operational |-> PyTrue, pausing |-> PyFalse,
                               paused |-> PyTrue, finishing |-> PyFalse]],
         temperature |-> [bed |-> [actual |-> PyFloat("55.0")],
                          tool0 |-> [actual |-> PyFloat("205.5")]]]

\* ----------------------------------------------------- OctoPrintClient methods
\* isPrinterConnected: True, False, or None (the function falls off its end)
isPrinterConnected(reply) ==
    LET g == get(reply) IN
    IF g.exc # "none" THEN Raise(g.exc)
    ELSE IF g.r # "None" THEN
        IF reply.body \notin States THEN Raise("KeyError")
        ELSE IF reply.body = "Operational" THEN Return(PyTrue)
        ELSE Return(PyFalse)
    ELSE Return(PyNone)

\* getPrinterStatus: json.loads(r.text) runs before the text is compared
getPrinterStatus(reply) ==
    LET g == get(reply) IN
    IF g.exc # "none" THEN Raise(g.exc)
    ELSE IF g.r # "None" THEN
        IF ~IsJson(reply.body) THEN Raise("JSONDecodeError")
        ELSE IF reply.body = NotOperationalText THEN Return(PyNone)
        ELSE Return(PyStr(reply.body))
    ELSE Return(PyNone)

\* connectToPrinter: the status code, or None
connectToPrinter(reply) ==
    LET p == post(reply) IN
    IF p.exc # "none" THEN Raise(p.exc)
    ELSE IF p.r # "None" THEN Return(PyInt("204"))
    ELSE Return(PyNone)

\* disconnectFromPrinter
disconnectFromPrinter(reply) ==
    LET p == post(reply) IN
    IF p.exc # "none" THEN Raise(p.exc)
    ELSE IF p.r # "None" THEN Return(PyInt("204"))
    ELSE Return(PyNone)

\* login
login(reply) ==
    LET p == post(reply) IN
    IF p.exc # "none" THEN Raise(p.exc)
    ELSE IF p.r # "None" THEN Return(PyStr(reply.body))
    ELSE Return(PyNone)

\* logout
logout(reply) ==
    LET p == post(reply) IN
    IF p.exc # "none" THEN Raise(p.exc)
    ELSE IF p.r # "None" THEN Return(PyStr(reply.body))
    ELSE Return(PyNone)

\* getCurrentPrintJob
getCurrentPrintJob(reply) ==
    LET g == get(reply) IN
    IF g.exc # "none" THEN Raise(g.exc)
    ELSE IF g.r # "None" THEN Return(PyStr(reply.body))
    ELSE Return(PyNone)

\* selectPrintJob
selectPrintJob(reply) ==
    LET p == post(reply) IN
    IF p.exc # "none" THEN Raise(p.exc)
    ELSE IF p.r # "None" THEN Return(PyStr(reply.body))
    ELSE Return(PyNone)

\* startPrintJob: after a POST that got no response it polls the connection
\* (reply2 is what the network does with that second request)
startPrintJob(reply, reply2) ==
    LET p == post(reply) IN
    IF p.exc # "none" THEN Raise(p.exc)
    ELSE IF p.r # "None" THEN Return(PyStr(reply.body))
    ELSE LET c == isPrinterConnected(reply2) IN
         IF c.exc # "none" THEN Raise(c.exc) ELSE Return(PyNone)

\* does startPrintJob send its second request (the poll) for this first reply?
StartPolls(reply) == post(reply).exc = "none" /\ post(reply).r = "None"

\* ------------------------------------------------------------- input files
IPs == {"10.0.0.5", "10.0.0.6"}
SeqsUpTo(S, n) == UNION {[1..k -> S] : k \in 0..n}

\* ListOfPrinters.csv: absent, or a header row and one row per printer
PrinterColumns == {"ipAddress", "apiKey", "username", "password"}
Devices == [ipAddress : IPs, apiKey : {"K1"}, username : {"u"}, password : {"p"}]
PrinterFiles ==
    {[exists |-> FALSE, columns |-> {}, rows |-> <<>>]}
        \cup {[exists |-> TRUE, columns |-> c, rows |-> r] :
                c \in {PrinterColumns, {"ipAddress", "apiKey"}},
                r \in SeqsUpTo(Devices, MaxDevices)}

\* pandas.read_csv gives a field that is empty in its row the float nan
NaN == "nan"
\* the rows of a ListOfPrinters.csv in which fields may be empty
DevicesOrNaN ==
    [ipAddress : IPs \cup {NaN}, apiKey : {"K1", NaN}, username : {"u", NaN},
     password : {"p", NaN}]
SparsePrinterFiles ==
    {[exists |-> TRUE, columns |-> PrinterColumns, rows |-> r] :
                r \in SeqsUpTo(DevicesOrNaN, MaxDevices)}

\* PrinterCommands.csv: absent, empty (first = ""), or a first line (a sep=
\* marker followed by the header, or the header itself) and the command rows
HeaderSemi == "IP_Address;Command;Argument"
HeaderComma == "IP_Address,Command,Argument"
FirstLines == {"sep=;", "sep=,", HeaderSemi, HeaderComma}
GcodePath == "/api/files/local/part.gcode"
Commands == [IP_Address : IPs, Command : {"print", "pause"}, Argument : {GcodePath}]
MissingCommands == [exists |-> FALSE, first |-> "", rows |-> <<>>]
EmptyCommands == [exists |-> TRUE, first |-> "", rows |-> <<>>]
CommandFiles ==
    {MissingCommands, EmptyCommands}
        \cup {[exists |-> TRUE, first |-> f, rows |-> r] :
                f \in FirstLines, r \in SeqsUpTo(Commands, MaxCommands)}

\* csvDataList[0][0]: csv.reader splits the first line on its default
\* delimiter, the comma
FirstCell(first) ==
    CASE first = "sep=;" -> "sep=;"
      [] first = "sep=," -> "sep="
      [] first = HeaderSemi -> HeaderSemi
      [] first = HeaderComma -> "IP_Address"
      [] OTHER -> first

\* ------------------------------------------------------------- status rows
\* opcStatusFields without its newline
opcStatusFields ==
    <<"IP", ";", "Connected", ";", "Printing", ";", "Ready", ";", "Operational", ";",
      "Pausing", ";", "Paused", ";", "Finishing", ";", "NozzleTemp", ";", "BedTemp">>

\* ConnectedRow with the Ready value pasted into the Printing column
ConnectedRowReadyTwice(opc, printerIsConnected, opcSJ) ==
    <<str(PyStr(opc.ipAddress)), ";",
      str(printerIsConnected), ";",
      str(opcSJ.state.flags.ready), ";",
      str(opcSJ.state.flags.ready), ";",
      str(opcSJ.state.flags.operational), ";",
      str(opcSJ.state.flags.pausing), ";",
      str(opcSJ.state.flags.paused), ";",
      str(opcSJ.state.flags.finishing), ";",
      str(opcSJ.temperature.bed.actual), ";",
      str(opcSJ.temperature.tool0.actual)>>

\* opcStatusString of a printer whose poll was truthy
ConnectedRow(opc, printerIsConnected, opcSJ) ==
    <<str(PyStr(opc.ipAddress)), ";",
      str(printerIsConnected), ";",
      str(opcSJ.state.flags.printing), ";",
      str(opcSJ.state.flags.ready), ";",
      str(opcSJ.state.flags.operational), ";",
      str(opcSJ.state.flags.pausing), ";",
      str(opcSJ.state.flags.paused), ";",
      str(opcSJ.state.flags.finishing), ";",
      str(opcSJ.temperature.bed.actual), ";",
      str(opcSJ.temperature.tool0.actual)>>

\* opcStatusString of the else branch
NotConnectedRow(opc, printerIsConnected) ==
    <<str(PyStr(opc.ipAddress)), ";",
      str(printerIsConnected), ";",
      ";", ";", ";", ";", ";", ";", ";">>

\* the fields of a line: its split on ";"
RECURSIVE SplitAcc(_, _, _)
SplitAcc(rest, cur, acc) ==
    IF rest = <<>> THEN Append(acc, cur)
    ELSE IF Head(rest) = ";" THEN SplitAcc(Tail(rest), "", Append(acc, cur))
    ELSE SplitAcc(Tail(rest), cur \o Head(rest), acc)
Split(line) == SplitAcc(line, "", <<>>)

\* ------------------------------------------------------------------ state
VARIABLES
    pc,             \* where the script is: import, connect, status, commands,
                    \* dispatch, done, or crashed (an exception left the script)
    i,              \* the loop position of the phase
    run,            \* which invocation of the script this is
    printersCsv,    \* ListOfPrinters.csv as first opened (<<>>: not opened yet)
    commandsCsv,    \* PrinterCommands.csv as first opened (<<>>: not opened yet)
    opcs,           \* the OctoPrintClient objects, in file order
    printerState,   \* connect loop: what a poll of printer k would return
    statusCsv,      \* PrinterStatus.csv: the lines written
    polled,         \* status loop: printerIsConnected and opcStatus of printer k
    commandList,    \* outputList of getCommandList (<<>>: not read)
    calls,          \* the HTTP requests of this invocation, in order
    raised,         \* the exception that ended the script, and its phase
    earlier,        \* the earlier invocations: the printers polled Connected
                    \* in each of them, their dispatch requests in order, and
                    \* the command list the last of them read
    client          \* a client method invoked on its own: call and result

vars == <<pc, i, run, printersCsv, commandsCsv, opcs, printerState, statusCsv,
          polled, commandList, calls, raised, earlier, client>>

NoException == [exc |-> "none", at |-> ""]
NoEarlier == [connected |-> 1..MaxDevices, dispatched |-> <<>>, commandList |-> <<>>]
IdleClient == [ip |-> "", op |-> "idle", replies |-> <<>>, requests |-> <<>>,
               ret |-> PyNone, exc |-> "none"]

\* one HTTP request: to printer dev (its position), by method op, answered or not
Call(dev, op, arg, reply) ==
    [dev |-> dev, op |-> op, arg |-> arg, resp |-> reply.outcome = "response"]

\* the module-level state when the script starts
Init ==
    /\ pc = "import"
    /\ i = 1
    /\ run = 1
    /\ printersCsv = <<>>
    /\ commandsCsv = <<>>
    /\ opcs = <<>>
    /\ printerState = <<>>
    /\ statusCsv = <<>>
    /\ polled = <<>>
    /\ commandList = <<>>
    /\ calls = <<>>
    /\ raised = NoException
    /\ earlier = NoEarlier
    /\ client = IdleClient

\* an exception leaves the script in phase at
Crash(e, at) ==
    /\ pc' = "crashed"
    /\ raised' = [exc |-> e, at |-> at]

\* the file a later invocation finds is the file the first one found
OnDisk(seen, files) == IF seen = <<>> THEN files ELSE {seen[1]}

\* importPrinterList: any exception is caught and logged, opcs stays empty
importPrinterList ==
    /\ pc = "import"
    /\ \E f \in OnDisk(printersCsv, PrinterFiles) :
        /\ printersCsv' = <<f>>
        /\ opcs' = IF f.exists /\ PrinterColumns \subseteq f.columns
                   THEN f.rows ELSE <<>>
    /\ pc' = "connect"
    /\ i' = 1
    /\ UNCHANGED <<run, commandsCsv, printerState, statusCsv, polled, commandList,
                   calls, raised, earlier, client>>

\* connectToPrinters, one iteration: the test reads the attribute
\* opc.isPrinterConnected, it does not call it
connectToPrinters ==
    /\ pc = "connect"
    /\ i <= Len(opcs)
    /\ \E state \in {PyTrue, PyFalse, PyNone} :
        printerState' = Append(printerState, state)
    /\ IF ~Truthy(BoundMethod)
       THEN \E reply \in PostReplies :
            LET response == connectToPrinter(reply) IN
            /\ calls' = Append(calls, Call(i, "connect", "", reply))
            /\ IF response.exc # "none"
               THEN Crash(response.exc, "connect") /\ i' = i
               ELSE i' = i + 1 /\ UNCHANGED <<pc, raised>>
       ELSE i' = i + 1 /\ UNCHANGED <<pc, raised, calls>>
    /\ UNCHANGED <<run, printersCsv, commandsCsv, opcs, statusCsv, polled,
                   commandList, earlier, client>>

\* the connect loop ends; sleep(10); updatePrinterStatus opens the status file
\* and writes the header
connectToPrintersEnd ==
    /\ pc = "connect"
    /\ i > Len(opcs)
    /\ pc' = "status"
    /\ i' = 1
    /\ printerState' = <<>>
    /\ statusCsv' = <<opcStatusFields>>
    /\ UNCHANGED <<run, printersCsv, commandsCsv, opcs, polled, commandList,
                   calls, raised, earlier, client>>

\* FullPoll with the two calls in the other order
FullPollStatusFirst(poll, fetch) == <<fetch, poll>>

\* the requests of a printer whose poll is truthy: opc.isPrinterConnected(),
\* then opc.getPrinterStatus()
FullPoll(poll, fetch) == <<poll, fetch>>

\* updatePrinterStatus, one iteration of its loop
updatePrinterStatus ==
    /\ pc = "status"
    /\ i <= Len(opcs)
    /\ \E reply \in ConnReplies :
        LET opc == opcs[i]
            printerIsConnected == isPrinterConnected(reply)
            poll == Call(i, "isConnected", "", reply)
        IN
        IF printerIsConnected.exc # "none"
        THEN /\ Crash(printerIsConnected.exc, "status")
             /\ calls' = Append(calls, poll)
             /\ UNCHANGED <<i, statusCsv, polled>>
        ELSE IF Truthy(printerIsConnected.ret)
        THEN \E reply2 \in StatusReplies :
             LET opcStatus == getPrinterStatus(reply2)
                 fetch == Call(i, "getStatus", "", reply2)
             IN
             /\ calls' = calls \o FullPoll(poll, fetch)
             /\ IF opcStatus.exc # "none"
                THEN /\ Crash(opcStatus.exc, "status")
                     /\ UNCHANGED <<i, statusCsv, polled>>
                ELSE IF opcStatus.ret.type # "str"
                THEN \* json.loads(None)
                     /\ Crash("TypeError", "status")
                     /\ UNCHANGED <<i, statusCsv, polled>>
                ELSE /\ statusCsv' = Append(statusCsv,
                           ConnectedRow(opc, printerIsConnected.ret,
                                        JsonLoads(opcStatus.ret.repr)))
                     /\ polled' = Append(polled,
                           [connected |-> printerIsConnected.ret,
                            status |-> opcStatus.ret.repr])
                     /\ i' = i + 1
                     /\ UNCHANGED <<pc, raised>>
        ELSE /\ statusCsv' = Append(statusCsv,
                    NotConnectedRow(opc, printerIsConnected.ret))
             /\ polled' = Append(polled,
                    [connected |-> printerIsConnected.ret, status |-> ""])
             /\ calls' = Append(calls, poll)
             /\ i' = i + 1
             /\ UNCHANGED <<pc, raised>>
    /\ UNCHANGED <<run, printersCsv, commandsCsv, opcs, printerState, commandList,
                   earlier, client>>

\* the status loop ends and the file is closed
updatePrinterStatusEnd ==
    /\ pc = "status"
    /\ i > Len(opcs)
    /\ pc' = "commands"
    /\ i' = 1
    /\ UNCHANGED <<run, printersCsv, commandsCsv, opcs, printerState, statusCsv,
                   polled, commandList, calls, raised, earlier, client>>

\* what getCommandList does with file f: its outputList, or the exception
\* (open, csvDataList[0][0], Sniffer().sniff on what is left of a file that
\* list(csvData) has read to its end, then pandas with the header row)
ParseCommands(f) ==
    IF ~f.exists THEN [exc |-> "FileNotFoundError", out |-> <<>>]
    ELSE IF f.first = "" THEN [exc |-> "IndexError", out |-> <<>>]
    ELSE IF FirstCell(f.first) = "sep=;" \/ FirstCell(f.first) = "sep=,"
    THEN [exc |-> "none",
          out |-> <<[k \in 1..Len(f.rows) |-> f.rows[k].IP_Address],
                    [k \in 1..Len(f.rows) |-> f.rows[k].Command],
                    [k \in 1..Len(f.rows) |-> f.rows[k].Argument]>>]
    ELSE [exc |-> "csv.Error", out |-> <<>>]

\* AfterParse with the commented-out line active: the file is cleared
AfterParseCleared(f) == EmptyCommands

\* what getCommandList leaves on disk: the clearing of the file is commented out
AfterParse(f) == f

\* getCommandList
getCommandList ==
    /\ pc = "commands"
    /\ \E f \in OnDisk(commandsCsv, CommandFiles) :
        LET parsed == ParseCommands(f) IN
        IF parsed.exc # "none"
        THEN /\ Crash(parsed.exc, "commands")
             /\ commandsCsv' = <<f>>
             /\ UNCHANGED <<i, commandList>>
        ELSE /\ commandList' = parsed.out
             /\ commandsCsv' = <<AfterParse(f)>>
             /\ pc' = "dispatch"
             /\ i' = 1
             /\ UNCHANGED raised
    /\ UNCHANGED <<run, printersCsv, opcs, printerState, statusCsv, polled, calls,
                   earlier, client>>

\* Dispatch with the two statements in the other order
DispatchStartFirst(select, start) == <<start, select>>

\* the requests of one dispatch: opc.selectPrintJob(...), then
\* opc.startPrintJob()
Dispatch(select, start) == <<select, start>>

\* the command loop, one iteration: the test reads the attribute
\* opc.isPrinterConnected, it does not call it
commandLoop ==
    /\ pc = "dispatch"
    /\ i <= Len(opcs)
    /\ IF ~Truthy(BoundMethod)
       THEN i' = i + 1 /\ UNCHANGED <<pc, raised, calls>>
       ELSE IF i > Len(commandList[1])
       THEN Crash("IndexError", "dispatch") /\ UNCHANGED <<i, calls>>
       ELSE IF commandList[1][i] = opcs[i].ipAddress /\ commandList[2][i] = "print"
       THEN \E reply \in PostReplies :
            LET selected == selectPrintJob(reply)
                select == Call(i, "selectJob", commandList[3][i], reply)
            IN
            IF selected.exc # "none"
            THEN /\ Crash(selected.exc, "dispatch")
                 /\ calls' = Append(calls, select)
                 /\ i' = i
            ELSE \E reply2 \in PostReplies :
                 LET start == Call(i, "startJob", "", reply2) IN
                 IF StartPolls(reply2)
                 THEN \E reply3 \in ConnReplies :
                      LET started == startPrintJob(reply2, reply3) IN
                      /\ calls' = calls \o Dispatch(select, start)
                                         \o <<Call(i, "isConnected", "", reply3)>>
                      /\ IF started.exc # "none"
                         THEN Crash(started.exc, "dispatch") /\ i' = i
                         ELSE i' = i + 1 /\ UNCHANGED <<pc, raised>>
                 ELSE LET started == startPrintJob(reply2, reply2) IN
                      /\ calls' = calls \o Dispatch(select, start)
                      /\ IF started.exc # "none"
                         THEN Crash(started.exc, "dispatch") /\ i' = i
                         ELSE i' = i + 1 /\ UNCHANGED <<pc, raised>>
       ELSE i' = i + 1 /\ UNCHANGED <<pc, raised, calls>>
    /\ UNCHANGED <<run, printersCsv, commandsCsv, opcs, printerState, statusCsv,
                   polled, commandList, earlier, client>>

\* the command loop ends and with it the script
commandLoopEnd ==
    /\ pc = "dispatch"
    /\ i > Len(opcs)
    /\ pc' = "done"
    /\ UNCHANGED <<i, run, printersCsv, commandsCsv, opcs, printerState, statusCsv,
                   polled, commandList, calls, raised, earlier, client>>

Next ==
    \/ importPrinterList
    \/ connectToPrinters
    \/ connectToPrintersEnd
    \/ updatePrinterStatus
    \/ updatePrinterStatusEnd
    \/ getCommandList
    \/ commandLoop
    \/ commandLoopEnd

Spec == Init /\ [][Next]_vars

\* The script up to the end of updatePrinterStatus.  The status file and the
\* poll results are written there and nowhere later in a run.
NextStatus ==
    \/ importPrinterList
    \/ connectToPrinters
    \/ connectToPrintersEnd
    \/ updatePrinterStatus
    \/ updatePrinterStatusEnd

SpecStatus == Init /\ [][NextStatus]_vars

\* importPrinterList on its own, on a printer list whose rows may have empty
\* fields
InitImport ==
    /\ pc = "import"
    /\ i = 1
    /\ run = 1
    /\ printersCsv \in {<<f>> : f \in SparsePrinterFiles}
    /\ commandsCsv = <<>>
    /\ opcs = <<>>
    /\ printerState = <<>>
    /\ statusCsv = <<>>
    /\ polled = <<>>
    /\ commandList = <<>>
    /\ calls = <<>>
    /\ raised = NoException
    /\ earlier = NoEarlier
    /\ client = IdleClient

SpecImport == InitImport /\ [][importPrinterList]_vars

\* ------------------------------------------------- the script run again
\* The script is one cycle; the external scheduler starts it again.  Here it
\* does so after a cycle that ran to its end.  A new process starts from the
\* module-level state; the files on disk stay as they are.
IsDispatch(call) == call.op \in {"selectJob", "startJob"}
Requests(log) == [k \in 1..Len(log) |-> [dev |-> log[k].dev, op |-> log[k].op, arg |-> log[k].arg]]
Summary ==
    [connected |-> {k \in earlier.connected :
                        k <= Len(polled) /\ polled[k].connected = PyTrue},
     dispatched |-> earlier.dispatched \o Requests(SelectSeq(calls, IsDispatch)),
     commandList |-> commandList]

Rerun ==
    /\ pc = "done"
    /\ run < MaxRuns
    /\ run' = run + 1
    /\ earlier' = Summary
    /\ pc' = "import"
    /\ i' = 1
    /\ opcs' = <<>>
    /\ polled' = <<>>
    /\ commandList' = <<>>
    /\ calls' = <<>>
    /\ UNCHANGED <<printersCsv, commandsCsv, printerState, statusCsv, raised, client>>

\* the printer list is on disk before the first invocation
InitRerun ==
    /\ pc = "import"
    /\ i = 1
    /\ run = 1
    /\ printersCsv \in {<<f>> : f \in {g \in PrinterFiles : Len(g.rows) <= RerunDevices}}
    /\ commandsCsv = <<>>
    /\ opcs = <<>>
    /\ printerState = <<>>
    /\ statusCsv = <<>>
    /\ polled = <<>>
    /\ commandList = <<>>
    /\ calls = <<>>
    /\ raised = NoException
    /\ earlier = NoEarlier
    /\ client = IdleClient

NextRerun == Next \/ Rerun

SpecRerun == InitRerun /\ [][NextRerun]_vars

\* ------------------------------------------- the client methods on their own
\* One OctoPrintClient method is invoked on a client for printer ip, with what
\* the network does with each request it sends; client records the call, the
\* requests sent and what came back to the caller.
Request(method, path) == [method |-> method, path |-> path]

Invoked(ip, op, replies, requests, result) ==
    client' = [ip |-> ip, op |-> op, replies |-> replies, requests |-> requests,
               ret |-> result.ret, exc |-> result.exc]

Orchestrator ==
    <<pc, i, run, printersCsv, commandsCsv, opcs, printerState, statusCsv,
      polled, commandList, calls, raised, earlier>>

InvokeLogin ==
    /\ \E ip \in IPs, reply \in PostReplies :
        Invoked(ip, "login", <<reply>>, <<Request("POST", "/api/login")>>,
                login(reply))
    /\ UNCHANGED Orchestrator

InvokeLogout ==
    /\ \E ip \in IPs, reply \in PostReplies :
        Invoked(ip, "logout", <<reply>>, <<Request("POST", "/api/logout")>>,
                logout(reply))
    /\ UNCHANGED Orchestrator

InvokeConnectToPrinter ==
    /\ \E ip \in IPs, reply \in PostReplies :
        Invoked(ip, "connectToPrinter", <<reply>>,
                <<Request("POST", "/api/connection")>>, connectToPrinter(reply))
    /\ UNCHANGED Orchestrator

InvokeDisconnectFromPrinter ==
    /\ \E ip \in IPs, reply \in PostReplies :
        Invoked(ip, "disconnectFromPrinter", <<reply>>,
                <<Request("POST", "/api/connection")>>, disconnectFromPrinter(reply))
    /\ UNCHANGED Orchestrator

InvokeIsPrinterConnected ==
    /\ \E ip \in IPs, reply \in ConnReplies :
        Invoked(ip, "isPrinterConnected", <<reply>>,
                <<Request("GET", "/api/connection")>>, isPrinterConnected(reply))
    /\ UNCHANGED Orchestrator

InvokeGetPrinterStatus ==
    /\ \E ip \in IPs, reply \in StatusReplies :
        Invoked(ip, "getPrinterStatus", <<reply>>,
                <<Request("GET", "/api/printer")>>, getPrinterStatus(reply))
    /\ UNCHANGED Orchestrator

InvokeGetCurrentPrintJob ==
    /\ \E ip \in IPs, reply \in PostReplies :
        Invoked(ip, "getCurrentPrintJob", <<reply>>,
                <<Request("GET", "/api/job")>>, getCurrentPrintJob(reply))
    /\ UNCHANGED Orchestrator

InvokeSelectPrintJob ==
    /\ \E ip \in IPs, reply \in PostReplies :
        Invoked(ip, "selectPrintJob", <<reply>>,
                <<Request("POST", GcodePath)>>, selectPrintJob(reply))
    /\ UNCHANGED Orchestrator

InvokeStartPrintJob ==
    /\ \E ip \in IPs, reply \in PostReplies :
        IF StartPolls(reply)
        THEN \E reply2 \in ConnReplies :
             Invoked(ip, "startPrintJob", <<reply, reply2>>,
                     <<Request("POST", "/api/job"), Request("GET", "/api/connection")>>,
                     startPrintJob(reply, reply2))
        ELSE Invoked(ip, "startPrintJob", <<reply>>,
                     <<Request("POST", "/api/job")>>, startPrintJob(reply, reply))
    /\ UNCHANGED Orchestrator

NextClient ==
    \/ InvokeLogin
    \/ InvokeLogout
    \/ InvokeConnectToPrinter
    \/ InvokeDisconnectFromPrinter
    \/ InvokeIsPrinterConnected
    \/ InvokeGetPrinterStatus
    \/ InvokeGetCurrentPrintJob
    \/ InvokeSelectPrintJob
    \/ InvokeStartPrintJob

SpecClient == Init /\ [][NextClient]_vars

\* ================================================================== claims
\* the fields of the status row of the k-th printer
RowFields(k) == Split(statusCsv[k + 1])

\* the command at position k names the k-th printer
Matches(k) ==
    /\ k <= Len(commandList[1])
    /\ commandList[1][k] = opcs[k].ipAddress

\* the command at position k is a print command for the k-th printer
Prints(k) == Matches(k) /\ commandList[2][k] = "print"

\* the dispatch requests to printer k among log
DispatchedTo(k, log) == SelectSeq(log, LAMBDA c : IsDispatch(c) /\ c.dev = k)

\* the status loop was entered and has ended, normally or by an exception
StatusPhaseEnded ==
    \/ pc \in {"commands", "dispatch", "done"}
    \/ pc = "crashed" /\ raised.at \in {"status", "commands", "dispatch"}

\* C1: selectJob and startJob are sent to a printer only if its poll in the
\* status phase of this cycle returned Connected.
C1_DispatchOnlyWhenConnected ==
    \A k \in 1..Len(calls) :
        IsDispatch(calls[k]) => polled[calls[k].dev].connected = PyTrue

\* C2: whatever the printers answer, a run of the status phase writes exactly
\* one row per printer of the registry, the k-th row carrying the identity of
\* the k-th printer.
C2_OneRowPerDevice ==
    StatusPhaseEnded =>
        /\ Len(statusCsv) = Len(opcs) + 1
        /\ \A k \in 1..Len(opcs) : RowFields(k)[1] = opcs[k].ipAddress

\* C3: no client method lets a transport failure (refusal or timeout) out to
\* its caller; a method whose request failed returns None.
C3_TransportFailureReturnsAbsent ==
    client.op # "idle" =>
        /\ client.exc \notin Failures
        /\ client.replies[1].outcome \in Failures => client.ret = PyNone

\* C4: at the end of the connect phase, connect was sent to exactly the
\* printers that were not Connected.
C4_ConnectIssuedToUnconnected ==
    (pc = "connect" /\ i > Len(opcs)) =>
        \A k \in 1..Len(opcs) :
            printerState[k] # PyTrue <=>
                \E n \in 1..Len(calls) : calls[n].dev = k /\ calls[n].op = "connect"

\* C5: isPrinterConnected never raises; it returns True for the reported state
\* Operational, False for any other reported state, None for a transport
\* failure.
C5_IsConnectedTriState ==
    client.op = "isPrinterConnected" =>
        LET reply == client.replies[1] IN
        /\ (reply.outcome = "response" /\ reply.body \in States) =>
              /\ client.exc = "none"
              /\ client.ret = IF reply.body = "Operational" THEN PyTrue ELSE PyFalse
        /\ reply.outcome \in Failures =>
              /\ client.exc = "none"
              /\ client.ret = PyNone

\* C6: in every status row written, the six flag fields and the two
\* temperature fields are empty when the printer's poll was not Connected, and
\* are the six flags and the two temperatures of the getStatus payload when it
\* was Connected.
C6_RowFieldsFromPayload ==
    \A k \in 1..Len(polled) :
        LET f == RowFields(k) IN
        /\ Len(f) = 10
        /\ IF polled[k].connected # PyTrue
           THEN \A j \in 3..10 : f[j] = ""
           ELSE LET opcSJ == JsonLoads(polled[k].status) IN
                /\ f[3] = str(opcSJ.state.flags.printing)
                /\ f[4] = str(opcSJ.state.flags.ready)
                /\ f[5] = str(opcSJ.state.flags.operational)
                /\ f[6] = str(opcSJ.state.flags.pausing)
                /\ f[7] = str(opcSJ.state.flags.paused)
                /\ f[8] = str(opcSJ.state.flags.finishing)
                /\ {f[9], f[10]} = {str(opcSJ.temperature.bed.actual),
                                    str(opcSJ.temperature.tool0.actual)}

\* a row of a Connected printer and a row of a printer that is not, both written
C6_Witness ==
    \E j, k \in 1..Len(polled) :
        /\ polled[j].connected = PyTrue
        /\ polled[k].connected # PyTrue
        /\ Len(statusCsv) = Len(polled) + 1

\* C7: the row of a printer that cannot be reached has False in the Connected
\* column, as the row of a Disconnected printer has, and nothing in the others.
C7_UnreachableRowSaysFalse ==
    \A k \in 1..Len(polled) :
        polled[k].connected = PyNone =>
            RowFields(k) = <<opcs[k].ipAddress, "False", "", "", "", "", "", "", "", "">>

\* C8: a position without a command that names its printer (the command list
\* may be shorter than the registry) gets no selectJob and no startJob, and the
\* command loop raises no error there.
C8_UnmatchedPositionSkipped ==
    (commandList # <<>>) =>
        /\ \A k \in 1..Len(opcs) : ~Matches(k) => DispatchedTo(k, calls) = <<>>
        /\ (pc = "crashed" /\ raised.at = "dispatch") => Matches(i)

\* the command loop of this run has passed position k
Passed(k) ==
    \/ pc = "done"
    \/ pc = "dispatch" /\ i > k
    \/ pc = "crashed" /\ raised.at = "dispatch" /\ i > k

\* C9: dispatch is not deduplicated.  The command list one run of the script
\* has read is found unchanged by the next run, and in every run the command
\* loop sends selectJob and then startJob to a printer that has a print command
\* and was polled Connected in this run and in the runs before: counted over
\* all runs so far, once per run.
C9_DispatchNotDeduplicated ==
    /\ run >= 2 =>
          /\ ~(pc = "crashed" /\ raised.at = "commands")
          /\ commandList # <<>> => commandList = earlier.commandList
    /\ \A k \in 1..Len(opcs) :
          (/\ commandList # <<>>
           /\ Passed(k)
           /\ Prints(k)
           /\ polled[k].connected = PyTrue
           /\ k \in earlier.connected) =>
              DispatchedTo(k, earlier.dispatched \o Requests(calls))
                  = [n \in 1..(2 * run) |->
                        IF n % 2 = 1
                        THEN [dev |-> k, op |-> "selectJob", arg |-> commandList[3][k]]
                        ELSE [dev |-> k, op |-> "startJob", arg |-> ""]]

\* the second run has ended, with a print command for a printer that was
\* polled Connected in both runs
C9_Witness ==
    /\ run = 2
    /\ pc = "done"
    /\ \E k \in 1..Len(opcs) :
          /\ Prints(k)
          /\ polled[k].connected = PyTrue
          /\ k \in earlier.connected
          /\ Len(DispatchedTo(k, earlier.dispatched)) = 2
          /\ Len(DispatchedTo(k, calls)) = 2

\* C10: an input file that cannot be read is recovered from: without the
\* printer list the registry is empty, without the command list (missing or
\* empty file) the command list is empty, and no exception ends the run.
C10_UnreadableInputRecovered ==
    /\ (printersCsv # <<>> /\ ~printersCsv[1].exists /\ pc # "import") =>
          opcs = <<>>
    /\ (commandsCsv # <<>> /\ (~commandsCsv[1].exists \/ commandsCsv[1].first = "")) =>
          raised = NoException

\* a row of the printer list with all four required fields
Complete(row) == \A c \in PrinterColumns : row[c] # NaN

\* C11: importPrinterList leaves out exactly the rows with a missing required
\* field: the registry holds one client per complete row, in file order, and
\* none for an incomplete row.
C11_IncompleteRecordsExcluded ==
    (pc = "connect" /\ printersCsv[1].exists
        /\ PrinterColumns \subseteq printersCsv[1].columns) =>
        opcs = SelectSeq(printersCsv[1].rows, Complete)

\* the command rows of a file as the three lists getCommandList returns
AsLists(rows) ==
    <<[k \in 1..Len(rows) |-> rows[k].IP_Address],
      [k \in 1..Len(rows) |-> rows[k].Command],
      [k \in 1..Len(rows) |-> rows[k].Argument]>>

\* getCommandList has opened a command file whose first line is among firsts
HasRead(firsts) == commandsCsv # <<>> /\ commandsCsv[1].first \in firsts

\* C12: a command file whose first line is the marker sep=; or the marker
\* sep=, is read with that delimiter and the header on its second line:
\* getCommandList returns its command rows, for either marker.
C12_SepMarkerRecognised ==
    HasRead({"sep=;", "sep=,"}) =>
        /\ raised.at # "commands"
        /\ commandList = AsLists(commandsCsv[1].rows)

\* C13: a command file without a sep= marker has its delimiter detected from
\* a sample of its content and its first line taken as the header:
\* getCommandList returns its command rows.
C13_DelimiterSniffedWithoutMarker ==
    HasRead({HeaderSemi, HeaderComma}) =>
        /\ raised.at # "commands"
        /\ commandList = AsLists(commandsCsv[1].rows)

\* C14: a client method sends exactly one HTTP request per invocation, also
\* when that request fails: none sends a second request after a failed one.
C14_OneRequestPerInvocation ==
    client.op # "idle" => Len(client.requests) = 1

\* C15: a dispatch sends selectJob with the command's argument to the printer
\* and startJob to the same printer right after it, each once: a startJob
\* directly follows the selectJob of its printer, the request after a
\* selectJob is the startJob of that printer, and a position the command loop
\* has passed that holds a print command for its printer got exactly the two.
C15_SelectThenStart ==
    /\ \A n \in 1..Len(calls) :
          /\ calls[n].op = "startJob" =>
                /\ n > 1
                /\ calls[n - 1].op = "selectJob"
                /\ calls[n - 1].dev = calls[n].dev
          /\ calls[n].op = "selectJob" =>
                /\ Prints(calls[n].dev)
                /\ calls[n].arg = commandList[3][calls[n].dev]
                /\ n < Len(calls) =>
                      /\ calls[n + 1].op = "startJob"
                      /\ calls[n + 1].dev = calls[n].dev
    /\ \A k \in 1..Len(opcs) :
          (commandList # <<>> /\ Passed(k) /\ Prints(k)) =>
              Requests(DispatchedTo(k, calls))
                  = <<[dev |-> k, op |-> "selectJob", arg |-> commandList[3][k]],
                      [dev |-> k, op |-> "startJob", arg |-> ""]>>

\* the command loop has ended after a dispatch to each of two printers
C15_Witness ==
    /\ pc = "done"
    /\ Len(opcs) = 2
    /\ Prints(1)
    /\ Prints(2)
    /\ Len(SelectSeq(calls, IsDispatch)) = 4

\* C16: when the answer to the status request is the text "Printer is not
\* operational", getPrinterStatus returns None and raises nothing, and the
\* status loop that called it is not ended by an exception of that answer.
C16_NotOperationalReturnsAbsent ==
    /\ (/\ client.op = "getPrinterStatus"
        /\ client.replies[1].outcome = "response"
        /\ client.replies[1].body = NotOperationalText) =>
            /\ client.exc = "none"
            /\ client.ret = PyNone
    /\ (pc = "crashed" /\ raised.at = "status") =>
            raised.exc \notin {"JSONDecodeError", "TypeError"}

\* the requests of the status loop for its first k printers, as polled says
\* they went: isConnected, and getStatus after a poll that returned True
RECURSIVE StatusRequests(_)
StatusRequests(k) ==
    IF k = 0 THEN <<>>
    ELSE StatusRequests(k - 1)
            \o <<[dev |-> k, op |-> "isConnected", arg |-> ""]>>
            \o (IF polled[k].connected = PyTrue
                THEN <<[dev |-> k, op |-> "getStatus", arg |-> ""]>>
                ELSE <<>>)

\* the request log of the run so far is in the order of the phases and of the
\* registry
RequestLogInOrder ==
    LET IsConnect(c) == c.op = "connect"
        IsOther(c) == c.op # "connect"
        rest == Requests(SelectSeq(calls, IsOther))
        done == StatusRequests(Len(polled))
        tail == SubSeq(rest, Len(done) + 1, Len(rest))
        next == Len(polled) + 1
    IN
    /\ \A n \in 2..Len(calls) : IsConnect(calls[n]) => IsConnect(calls[n - 1])
    /\ Len(rest) >= Len(done)
    /\ SubSeq(rest, 1, Len(done)) = done
    /\ IF pc \in {"import", "connect"} THEN rest = <<>>
       ELSE IF pc = "status" \/ (pc = "crashed" /\ raised.at = "commands")
       THEN tail = <<>>
       ELSE IF pc = "crashed" /\ raised.at = "status"
       THEN tail \in {<<[dev |-> next, op |-> "isConnected", arg |-> ""]>>,
                      <<[dev |-> next, op |-> "isConnected", arg |-> ""],
                        [dev |-> next, op |-> "getStatus", arg |-> ""]>>}
       ELSE /\ Len(polled) = Len(opcs)
            /\ Len(statusCsv) = Len(opcs) + 1
            /\ \A n \in 1..Len(tail) :
                  /\ tail[n].op \in {"selectJob", "startJob", "isConnected"}
                  /\ tail[n].dev <= i
                  /\ n > 1 => tail[n - 1].dev <= tail[n].dev

\* a step that sends selectJob or startJob to a printer is a step of the
\* command loop, taken when the status row of that printer is in the file
RowBeforeDispatch ==
    \A n \in (Len(calls) + 1)..Len(calls') :
        IsDispatch(calls'[n]) =>
            /\ pc = "dispatch"
            /\ calls'[n].dev = i
            /\ Len(statusCsv) > calls'[n].dev

\* C17: the phases of a run come strictly in order and the printers in
\* registry order.  Every connect request precedes every other request; the
\* requests after them begin with the status loop's, printer by printer, each
\* printer's isConnected and then its getStatus only if that poll returned
\* True, before the next printer's; and selectJob and startJob are sent to a
\* printer only after the status loop has ended and its row is written.
C17_PhasesAndRegistryOrder == []RequestLogInOrder /\ [][RowBeforeDispatch]_vars

\* the run has ended: the first printer was polled True and asked for its
\* status, the second was polled and not asked, and both got a dispatch
C17_Witness ==
    /\ pc = "done"
    /\ Len(opcs) = 2
    /\ polled[1].connected = PyTrue
    /\ polled[2].connected # PyTrue
    /\ DispatchedTo(1, calls) # <<>>
    /\ DispatchedTo(2, calls) # <<>>

\* the position of the column named name in the header line
Column(name) == CHOOSE c \in 1..Len(Split(statusCsv[1])) : Split(statusCsv[1])[c] = name

\* C18: every status row has as many fields as the header, and in the row of a
\* Connected printer the temperatures are under the columns that name them:
\* temperature.tool0.actual under NozzleTemp, temperature.bed.actual under
\* BedTemp.
C18_ValuesUnderTheirColumns ==
    \A k \in 1..Len(polled) :
        /\ Len(RowFields(k)) = Len(Split(statusCsv[1]))
        /\ polled[k].connected = PyTrue =>
              LET opcSJ == JsonLoads(polled[k].status) IN
              /\ RowFields(k)[Column("NozzleTemp")] = str(opcSJ.temperature.tool0.actual)
              /\ RowFields(k)[Column("BedTemp")] = str(opcSJ.temperature.bed.actual)

\* C19: within one dispatch startJob is sent only if the selectJob before it
\* got a response: after a selectJob that failed in transport no startJob
\* follows.
C19_StartOnlyAfterAnsweredSelect ==
    \A n \in 1..Len(calls) :
        (calls[n].op = "selectJob" /\ ~calls[n].resp) =>
            (n = Len(calls) \/ calls[n + 1].op # "startJob")

====
